---- MODULE Spec2Model ----
(***************************************************************************)
(* One run of the hall-data dashboard script src/app.py: the table is      *)
(* loaded and enriched (load_data), the coordinate table is loaded         *)
(* (load_map_coordinates), the latest-model map is built, the sidebar      *)
(* filters produce target_df, and the five tabs are rendered in order.     *)
(*                                                                         *)
(* Column names of the source are Japanese; the model spells them in       *)
(* ASCII: "daiban" = cabinet number, "kishu" = model name, "hiduke" =      *)
(* date, "sousamai" = net payout, "Gsuu" = spin count, "matsubi" = day     *)
(* ending digit, "dai_matsubi" = cabinet ending digit, "dai_zorome" =      *)
(* cabinet repeating-digit type, "normal" = the ordinary-cabinet tag.      *)
(* Percentages rounded to one decimal are kept as integers in tenths.      *)
(***************************************************************************)
EXTENDS Integers, Sequences, FiniteSets, TLC

VARIABLES
    pc,                 \* position of the script run
    source,             \* what read_csv finds for the hall data
    coord_source,       \* what read_csv finds for the coordinates
    df,                 \* load_data's result, later narrowed to the date range
    map_coords,         \* load_map_coordinates' result
    latest_machine_map, \* cabinet number -> model of its most recent record
    target_ends,        \* sidebar: selected day-ending digits
    use_zorome,         \* sidebar: include repeating-digit days
    target_df,          \* the analysed record set
    agg_call,           \* the aggregator's last call: input, group_cols, output
    view,               \* what the tab being rendered has computed
    shown               \* user-visible elements rendered so far, in order

vars == <<pc, source, coord_source, df, map_coords, latest_machine_map,
          target_ends, use_zorome, target_df, agg_call, view, shown>>

-----------------------------------------------------------------------------
(* Bounds of the explored inputs *)

MaxRows == 2
MaxCabs == 11
MaxCoords == 2
MaxCabNo == 100

-----------------------------------------------------------------------------
(* Values *)

\* Strings the code computes with are sequences of characters.
NaN == <<"<NaN>">>          \* an empty cell of a text column (pandas NaN)
Normal == <<"<normal>">>    \* the ordinary-cabinet tag of get_machine_zorome

\* None: what load_data and load_map_coordinates return when they give up.
None == [ok |-> FALSE, cols |-> {}, rows |-> <<>>]

Range(s) == {s[i] : i \in DOMAIN s}

RECURSIVE SumField(_, _)
\* Series.sum() of column col over the rows of a sequence.
SumField(rows, col) ==
    IF rows = <<>> THEN 0 ELSE Head(rows)[col] + SumField(Tail(rows), col)

\* Python's round-half-to-even of the rational num/den (den > 0) to an integer.
RoundHalfEven(num, den) ==
    LET q == num \div den
        r == num % den
    IN  IF 2 * r < den THEN q
        ELSE IF 2 * r > den THEN q + 1
        ELSE IF q % 2 = 0 THEN q ELSE q + 1

-----------------------------------------------------------------------------
(* Strings: str(num), str.strip() *)

Digits == <<"0", "1", "2", "3", "4", "5", "6", "7", "8", "9">>

RECURSIVE NatStr(_)
NatStr(n) == IF n < 10 THEN <<Digits[n + 1]>>
             ELSE NatStr(n \div 10) \o <<Digits[(n % 10) + 1]>>

\* str(num) of an int, as a sequence of characters.
Str(num) == IF num < 0 THEN <<"-">> \o NatStr(0 - num) ELSE NatStr(num)

RECURSIVE LStrip(_)
LStrip(s) == IF s # <<>> /\ Head(s) = " " THEN LStrip(Tail(s)) ELSE s

RECURSIVE RStrip(_)
RStrip(s) == IF s # <<>> /\ s[Len(s)] = " "
             THEN RStrip(SubSeq(s, 1, Len(s) - 1)) ELSE s

\* str(x).strip(): a model name is a sequence of characters; str(nan) = "nan".
StrStrip(x) == IF x = NaN THEN <<"n", "a", "n">> ELSE RStrip(LStrip(x))

-----------------------------------------------------------------------------
(* load_data *)

\* rename_map: the canonical column names and their aliases ("daiban_" for
\* the two-character short form of the cabinet column, and so on). A header
\* stands for every header that contains it.
rename_map ==
    [daiban   |-> {"daiban_", "No.", "No"},
     kishu    |-> {"kishumei", "Machine"},
     sousamai |-> {"samai", "samaisuu", "Diff"},
     Gsuu     |-> {"soukaitensuu", "kaitensuu", "Games"}]

\* The columns of df after the alias loop: a canonical name is present when
\* the table has it or has a column one of its aliases renames to it.
ResolveColumns(headers) ==
    {h \in headers : h \notin UNION {rename_map[c] : c \in DOMAIN rename_map}}
    \cup {c \in DOMAIN rename_map :
            c \in headers \/ rename_map[c] \cap headers # {}}
    \cup {h \in headers : \E c \in DOMAIN rename_map :
            h \in rename_map[c] /\ c \in headers}

\* Series.replace(rename_dict) on the model name.
ReplaceModel(rename_dict, name) ==
    IF \E p \in rename_dict : p[1] = name
    THEN (CHOOSE p \in rename_dict : p[1] = name)[2]
    ELSE name

\* pd.to_numeric(errors='coerce').fillna(0).astype(int) of one cell.
ToInt(row, col) == IF col \in row.bad THEN 0 ELSE row[col]

\* df["is_Zorome"]
IsZorome(month, day) == day \in {11, 22} \/ month = day

\* get_machine_zorome with the test "the number is a multiple of 11" in place
\* of the comparison of the last two characters.
get_machine_zorome_mod11(num) ==
    LET s == Str(num)
    IN  IF num >= 10 /\ num % 11 = 0
        THEN SubSeq(s, Len(s) - 1, Len(s))
        ELSE Normal

\* get_machine_zorome
get_machine_zorome(num) ==
    LET s == Str(num)
    IN  IF Len(s) >= 2 /\ s[Len(s)] = s[Len(s) - 1]
        THEN SubSeq(s, Len(s) - 1, Len(s))
        ELSE Normal

\* One row of df: the coerced cells and the derived columns.
EnrichRow(row, cols, rename_dict) ==
    LET no == ToInt(row, "daiban")
    IN  [daiban      |-> no,
         kishu       |-> IF "kishu" \in cols
                         THEN ReplaceModel(rename_dict, row.kishu) ELSE row.kishu,
         hiduke      |-> row.hiduke,
         sousamai    |-> ToInt(row, "sousamai"),
         Gsuu        |-> ToInt(row, "Gsuu"),
         DayNum      |-> row.hiduke.day,
         Month       |-> row.hiduke.month,
         matsubi     |-> row.hiduke.day % 10,
         is_Zorome   |-> IsZorome(row.hiduke.month, row.hiduke.day),
         dai_matsubi |-> IF "daiban" \in cols THEN no % 10 ELSE 0,
         dai_zorome  |-> IF "daiban" \in cols THEN get_machine_zorome(no) ELSE Normal]

\* load_data(): None when no table can be read or the date or payout column
\* is missing; otherwise the enriched table.
LoadData(src) ==
    IF ~src.ok THEN None
    ELSE LET cols == ResolveColumns(src.headers)
         IN  IF "hiduke" \notin cols \/ "sousamai" \notin cols THEN None
             ELSE [ok   |-> TRUE,
                   cols |-> cols \cup {"DayNum", "Month", "matsubi", "is_Zorome",
                                       "dai_matsubi", "dai_zorome"},
                   rows |-> [i \in DOMAIN src.rows |->
                               EnrichRow(src.rows[i], cols, src.rename_dict)]]

-----------------------------------------------------------------------------
(* load_map_coordinates *)

\* load_map_coordinates(): None when the table cannot be read or a cabinet, X
\* or Y column is not found; otherwise the rows left by to_numeric + dropna.
load_map_coordinates(csrc) ==
    IF ~csrc.ok \/ ~({"No", "X", "Y"} \subseteq csrc.headers) THEN None
    ELSE LET notna(r) == ~r.bad
         IN  [ok   |-> TRUE,
              cols |-> {"daiban", "Map_X", "Map_Y"},
              rows |-> [i \in DOMAIN SelectSeq(csrc.rows, notna) |->
                          LET r == SelectSeq(csrc.rows, notna)[i]
                          IN  [daiban |-> r.daiban, Map_X |-> r.Map_X,
                               Map_Y |-> r.Map_Y]]]

-----------------------------------------------------------------------------
(* latest_machine_map *)

\* Dates are compared as timestamps of one year.
DateKey(d) == d.month * 100 + d.day

\* groupby("daiban")["hiduke"].idxmax(): the first row of cabinet no that
\* carries the cabinet's latest date.
LatestIndex(rows, no) ==
    CHOOSE i \in DOMAIN rows :
        /\ rows[i].daiban = no
        /\ \A j \in DOMAIN rows : rows[j].daiban = no =>
               /\ DateKey(rows[j].hiduke) <= DateKey(rows[i].hiduke)
               /\ (j < i => DateKey(rows[j].hiduke) < DateKey(rows[i].hiduke))

\* The dict cabinet number -> model, as a set of <<number, model>> pairs; it
\* stays empty when the cabinet or the model column is missing.
LatestMachineMap(d) ==
    IF "daiban" \in d.cols /\ "kishu" \in d.cols
    THEN {<<no, d.rows[LatestIndex(d.rows, no)].kishu>> :
             no \in {d.rows[i].daiban : i \in DOMAIN d.rows}}
    ELSE {}

-----------------------------------------------------------------------------
(* calculate_metrics *)

\* A group key is dropped by groupby when one of its values is NaN; only the
\* model name can be NaN after load_data's numeric coercion.
HasNaNKey(row, group_cols) == "kishu" \in Range(group_cols) /\ row.kishu = NaN

KeyOf(row, group_cols) == [c \in Range(group_cols) |-> row[c]]

\* The group keys groupby(group_cols) forms.
GroupKeys(rows, group_cols) ==
    {KeyOf(rows[i], group_cols) :
        i \in {j \in DOMAIN rows : ~HasNaNKey(rows[j], group_cols)}}

\* The rows of one group.
GroupRows(rows, group_cols, key) ==
    LET member(r) == ~HasNaNKey(r, group_cols) /\ KeyOf(r, group_cols) = key
    IN  SelectSeq(rows, member)

\* ("sousamai", lambda x: (x > 0).sum())
WinCount(group) ==
    LET won(r) == r.sousamai > 0
    IN  Len(SelectSeq(group, won))

\* Kikaiwari with a group without spins reported as 100 %.
Kikaiwari_IdleIsHundred(total_g, total_diff) ==
    IF total_g > 0
    THEN RoundHalfEven((total_g * 3 + total_diff) * 1000, total_g * 3)
    ELSE 1000

\* The payout percentage of calculate_metrics, in tenths of a percent.
Kikaiwari(total_g, total_diff) ==
    IF total_g > 0
    THEN RoundHalfEven((total_g * 3 + total_diff) * 1000, total_g * 3)
    ELSE 0

\* One aggregate row.
AggRow(rows, group_cols, key) ==
    LET group  == GroupRows(rows, group_cols, key)
        n      == Len(group)
        wins   == WinCount(group)
        diff   == SumField(group, "sousamai")
        g      == SumField(group, "Gsuu")
    IN  [key        |-> key,
         samples    |-> n,
         wins       |-> wins,
         sousamai   |-> diff,
         total_g    |-> g,
         avg_diff   |-> RoundHalfEven(diff, n),
         avg_g      |-> RoundHalfEven(g, n),
         win_rate   |-> RoundHalfEven(wins * 1000, n),
         kikaiwari  |-> Kikaiwari(g, diff)]

\* calculate_metrics(dataframe, group_cols): the set of aggregate rows.
calculate_metrics(rows, group_cols) ==
    {AggRow(rows, group_cols, key) : key \in GroupKeys(rows, group_cols)}

\* calculate_metrics raises KeyError when a grouping column or the spin
\* column is missing from the table.
MetricsKeyError(cols, group_cols) ==
    ~(Range(group_cols) \subseteq cols) \/ "Gsuu" \notin cols

\* agg.apply(..., axis=1) on a table without rows: pandas versions that
\* return a frame make the assignment to the one column raise, versions that
\* return an empty series leave an empty table. Both outcomes are possible.
EmptyApplyOutcomes == {"raise", "empty"}

-----------------------------------------------------------------------------
(* The tables the run may find: the explored inputs *)

CanonHeaders == {"daiban", "kishu", "hiduke", "sousamai", "Gsuu"}

Date(m, d) == [month |-> m, day |-> d]

DaysIn(m) == IF m = 2 THEN 29 ELSE IF m \in {4, 6, 9, 11} THEN 30 ELSE 31

ModelA == <<"A">>
ModelASpace == <<"A", " ">>

HallRow(no, kishu, date, diff, g) ==
    [daiban |-> no, kishu |-> kishu, hiduke |-> date, sousamai |-> diff,
     Gsuu |-> g, bad |-> {}]

HallTable(headers, rows, rename_dict) ==
    [ok |-> TRUE, headers |-> headers, rows |-> rows, rename_dict |-> rename_dict]

\* Neither the sheet URL nor the local CSV can be read.
Unavailable == [ok |-> FALSE, headers |-> {}, rows |-> <<>>, rename_dict |-> {}]

SeqsUpTo(S, n) == UNION {[1..k -> S] : k \in 1..n}

\* Tables whose headers are canonical, aliased or absent, one record each.
HeaderSources ==
    {HallTable((hs \cup {"hiduke"}) \ drop,
               <<HallRow(1, ModelA, Date(3, 15), 300, 1000)>>, {}) :
        hs \in {{n, k, d, g} : n \in {"daiban", "No", "-"}, k \in {"kishu", "Machine", "-"},
                                d \in {"sousamai", "Diff", "-"}, g \in {"Gsuu", "Games", "-"}},
        drop \in {{"-"}, {"-", "hiduke"}}}

\* Records that differ in cabinet, model name and date.
RankingRows ==
    {HallRow(no, k, d, 300, 1000) :
        no \in {1, 22}, k \in {ModelA, ModelASpace, NaN}, d \in {Date(3, 15), Date(11, 1)}}

\* Records that differ in cabinet, payout and spin count.
MetricsRows ==
    {HallRow(no, ModelA, Date(1, 11), diff, g) :
        no \in {1, 22}, diff \in {-300, 100}, g \in {0, 700}}

\* One record on each date of the calendar.
CalendarSources ==
    {HallTable(CanonHeaders, <<HallRow(1, ModelA, date, 300, 1000)>>, {}) :
        date \in UNION {{Date(m, d) : d \in 1..DaysIn(m)} : m \in 1..12}}

\* One record with unparsable numeric cells and a model-name remapping.
CoercionSources ==
    {HallTable(CanonHeaders,
               <<[HallRow(1, ModelASpace, Date(3, 15), 300, 1000) EXCEPT !.bad = b]>>,
               {<<ModelASpace, ModelA>>}) :
        b \in SUBSET {"daiban", "sousamai", "Gsuu"}}

\* Cabinets 1..n, one record each.
FloorSources ==
    {HallTable(CanonHeaders,
               [i \in 1..n |-> HallRow(i, ModelA, Date(3, 15), 300, 1000)], {}) :
        n \in 1..MaxCabs}

\* Three records, of cabinets n, n + 22 and n + 23.
CabinetSources ==
    {HallTable(CanonHeaders,
               <<HallRow(n, ModelA, Date(3, 15), 300, 1000),
                 HallRow(n + 22, ModelA, Date(3, 15), 300, 1000),
                 HallRow(n + 23, ModelA, Date(3, 15), 300, 1000)>>, {}) :
        n \in 0..MaxCabNo}

\* Three records of one cabinet, on days that end in 5, repeat the month,
\* do neither, or end in 1 and repeat.
FilterSources ==
    {HallTable(CanonHeaders,
               [i \in 1..3 |-> HallRow(1, ModelA, ds[i], 300, 1000)], {}) :
        ds \in [1..3 -> {Date(3, 15), Date(2, 2), Date(4, 7), Date(1, 11)}]}

HallSources ==
    {Unavailable} \cup HeaderSources \cup CalendarSources \cup CoercionSources
    \cup FloorSources \cup CabinetSources \cup FilterSources
    \cup {HallTable(CanonHeaders, rows, {}) : rows \in SeqsUpTo(RankingRows, MaxRows)}
    \cup {HallTable(CanonHeaders, rows, {}) : rows \in SeqsUpTo(MetricsRows, MaxRows)}

CoordRow(no, x, y, bad) == [daiban |-> no, Map_X |-> x, Map_Y |-> y, bad |-> bad]

CoordTable(headers, rows) == [ok |-> TRUE, headers |-> headers, rows |-> rows]

CoordUnavailable == [ok |-> FALSE, headers |-> {}, rows |-> <<>>]

CoordRows ==
    {CoordRow(no, x, 1, FALSE) : no \in {1, 2}, x \in {1, 2}}
    \cup {CoordRow(1, 1, 1, TRUE)}

\* The coordinate tables tried with the floor records.
FloorCoordSources ==
    {CoordUnavailable, CoordTable({"No", "X"}, <<CoordRow(1, 1, 1, FALSE)>>)}
    \cup {CoordTable({"No", "X", "Y"}, rows) :
              rows \in {<<>>} \cup SeqsUpTo(CoordRows, MaxCoords)}

\* The coordinate tables tried with the tables of HeaderSources; the other
\* tables are tried without a coordinate table.
CoordSources ==
    {CoordUnavailable, CoordTable({"No", "X", "Y"}, <<CoordRow(1, 1, 1, FALSE)>>)}

-----------------------------------------------------------------------------
(* The widgets' values the run may find *)

\* st.sidebar.multiselect of day-ending digits: the selections explored.
TargetEndsChoices == {{}, {1}, {5}}

\* st.slider("min_sample", 1, 10, 1) and st.slider("min_model", 1, 10, 1).
MinSampleChoices == {1, 2}

\* st.slider("min_diff", -1000, 2000, 0, step=100).
MinDiffChoices == {0, -1000}

\* st.slider("cols_per_row", 10, 40, 20).
ColsPerRowChoices == {10, 20, 40}

-----------------------------------------------------------------------------
(* The run *)

NoCall == [called |-> FALSE, input |-> <<>>, group_cols |-> <<>>, out |-> {}]

NoView == [tab |-> 0]

Init ==
    /\ pc = "start"
    /\ source \in HallSources
    /\ coord_source \in IF source \in FloorSources THEN FloorCoordSources
                         ELSE IF source \in HeaderSources THEN CoordSources
                         ELSE {CoordUnavailable}
    /\ df = None
    /\ map_coords = None
    /\ latest_machine_map = {}
    /\ target_ends = {}
    /\ use_zorome = FALSE
    /\ target_df = <<>>
    /\ agg_call = NoCall
    /\ view = NoView
    /\ shown = <<>>

\* df = load_data(); map_coords = load_map_coordinates(); the load-failure
\* stop.
Load ==
    /\ pc = "start"
    /\ df' = LoadData(source)
    /\ map_coords' = load_map_coordinates(coord_source)
    /\ IF ~df'.ok
       THEN pc' = "stopped" /\ shown' = Append(shown, "error_load")
       ELSE pc' = "latest" /\ shown' = shown
    /\ UNCHANGED <<source, coord_source, latest_machine_map, target_ends,
                   use_zorome, target_df, agg_call, view>>

\* The latest-model map, built from the whole loaded table.
BuildLatest ==
    /\ pc = "latest"
    /\ latest_machine_map' = LatestMachineMap(df)
    /\ pc' = "dates"
    /\ UNCHANGED <<source, coord_source, df, map_coords, target_ends,
                   use_zorome, target_df, agg_call, view, shown>>

PresentDates(rows) == {rows[i].hiduke : i \in DOMAIN rows}

\* st.sidebar.date_input: a range of two dates narrows df, a single date
\* (the user has picked only the start) leaves it whole.
DateInput ==
    /\ pc = "dates"
    /\ \E dates \in {<<a, b>> : a \in PresentDates(df.rows), b \in PresentDates(df.rows)}
                   \cup {<<a>> : a \in PresentDates(df.rows)} :
          /\ Len(dates) = 2 => DateKey(dates[1]) <= DateKey(dates[2])
          /\ LET inrange(r) == /\ DateKey(r.hiduke) >= DateKey(dates[1])
                                /\ DateKey(r.hiduke) <= DateKey(dates[2])
             IN  df' = IF Len(dates) = 2
                       THEN [df EXCEPT !.rows = SelectSeq(df.rows, inrange)]
                       ELSE df
    /\ pc' = "filter"
    /\ UNCHANGED <<source, coord_source, map_coords, latest_machine_map,
                   target_ends, use_zorome, target_df, agg_call, view, shown>>

\* target_df with a mask that keeps only the records both selections match.
TargetRows_BothSelections(rows, ends, zorome) ==
    LET mask(r) == /\ (ends # {} => r.matsubi \in ends)
                   /\ (zorome => r.is_Zorome)
    IN  SelectSeq(rows, mask)

\* target_df: df.copy() when nothing is selected, df[mask] otherwise, the
\* mask or-ing the day-ending selection and the repeating-date flag.
TargetRows(rows, ends, zorome) ==
    LET mask(r) == \/ (ends # {} /\ r.matsubi \in ends)
                   \/ (zorome /\ r.is_Zorome)
    IN  IF ends = {} /\ ~zorome THEN rows ELSE SelectSeq(rows, mask)

\* The day-ending and repeating-date selection, target_df and the
\* no-matching-data stop.
DayFilter ==
    /\ pc = "filter"
    /\ \E ends \in TargetEndsChoices, zorome \in BOOLEAN :
          /\ target_ends' = ends
          /\ use_zorome' = zorome
          /\ target_df' = TargetRows(df.rows, ends, zorome)
    /\ IF target_df' = <<>>
       THEN pc' = "stopped" /\ shown' = Append(shown, "warning_no_data")
       ELSE pc' = "tab1" /\ shown' = shown
    /\ UNCHANGED <<source, coord_source, df, map_coords, latest_machine_map,
                   agg_call, view>>

\* What one calculate_metrics call leaves in agg_call.
Call(rows, group_cols) ==
    [called |-> TRUE, input |-> rows, group_cols |-> group_cols,
     out |-> calculate_metrics(rows, group_cols)]

\* Whether calculate_metrics(rows, group_cols) raises.
MetricsRaises(rows, group_cols, outcome) ==
    \/ MetricsKeyError(df.cols, group_cols)
    \/ (GroupKeys(rows, group_cols) = {} /\ outcome = "raise")

\* target_df[target_df["dai_zorome"] != "normal"]
ZoromeRows(rows) ==
    LET zorome(r) == r.dai_zorome # Normal
    IN  SelectSeq(rows, zorome)

\* Tab 1, left column: the metrics per cabinet ending digit.
Tab1Col1 ==
    /\ pc = "tab1"
    /\ IF "daiban" \notin df.cols
       THEN /\ pc' = "tab1b"
            /\ UNCHANGED <<agg_call, view, shown>>
       ELSE IF MetricsKeyError(df.cols, <<"dai_matsubi">>)
       THEN /\ pc' = "crashed"
            /\ shown' = Append(shown, "exception")
            /\ UNCHANGED <<agg_call, view>>
       ELSE /\ pc' = "tab1b"
            /\ agg_call' = Call(target_df, <<"dai_matsubi">>)
            /\ view' = [tab |-> 1, matsubi_metrics |-> agg_call'.out]
            /\ shown' = Append(shown, "tab1_matsubi")
    /\ UNCHANGED <<source, coord_source, df, map_coords, latest_machine_map,
                   target_ends, use_zorome, target_df>>

\* Tab 1, right column: the metrics per cabinet repeating-digit type.
Tab1Col2 ==
    /\ pc = "tab1b"
    /\ LET zorome_df == ZoromeRows(target_df)
       IN  IF zorome_df = <<>>
           THEN /\ pc' = "tab2"
                /\ shown' = Append(shown, "tab1_no_zorome")
                /\ UNCHANGED <<agg_call, view>>
           ELSE IF MetricsKeyError(df.cols, <<"dai_zorome">>)
           THEN /\ pc' = "crashed"
                /\ shown' = Append(shown, "exception")
                /\ UNCHANGED <<agg_call, view>>
           ELSE /\ pc' = "tab2"
                /\ agg_call' = Call(zorome_df, <<"dai_zorome">>)
                /\ view' = [tab |-> 1, zorome_metrics |-> agg_call'.out]
                /\ shown' = Append(shown, "tab1_zorome")
    /\ UNCHANGED <<source, coord_source, df, map_coords, latest_machine_map,
                   target_ends, use_zorome, target_df>>

Active == "active"      \* the 'currently installed' mark
Removed == "removed"    \* the 'removed' mark

\* check_status comparing the model names as they stand, without strip().
check_status_unstripped(row, machine_map) ==
    IF \E p \in machine_map :
          /\ p[1] = row.key["daiban"]
          /\ p[2] # <<>>
          /\ p[2] = row.key["kishu"]
    THEN Active
    ELSE Removed

\* check_status(row): the cabinet's entry of latest_machine_map, compared
\* with the row's model after str().strip() on both sides.
check_status(row, machine_map) ==
    IF \E p \in machine_map :
          /\ p[1] = row.key["daiban"]
          /\ p[2] # <<>>
          /\ StrStrip(p[2]) = StrStrip(row.key["kishu"])
    THEN Active
    ELSE Removed

\* The rows of tab 2 after the sample and payout sliders, each with its
\* status, and after the 'only active' checkbox.
RankingRowsOf(metrics, min_sample, min_diff_map, only_active, machine_map) ==
    LET filtered == {m \in metrics : m.samples >= min_sample
                                      /\ m.avg_diff >= min_diff_map}
        marked   == {[row |-> m, status |-> check_status(m, machine_map)] :
                        m \in filtered}
    IN  IF only_active THEN {x \in marked : x.status = Active} ELSE marked

\* Tab 2: the ranking of (cabinet, model) rows.
Tab2 ==
    /\ pc = "tab2"
    /\ IF "daiban" \notin df.cols
       THEN /\ pc' = "tab3"
            /\ shown' = Append(shown, "tab2_error_no_daiban")
            /\ UNCHANGED <<agg_call, view>>
       ELSE \E outcome \in EmptyApplyOutcomes :
            IF MetricsRaises(target_df, <<"daiban", "kishu">>, outcome)
            THEN /\ pc' = "crashed"
                 /\ shown' = Append(shown, "exception")
                 /\ UNCHANGED <<agg_call, view>>
            ELSE
            /\ pc' = "tab3"
            /\ agg_call' = Call(target_df, <<"daiban", "kishu">>)
            /\ \E min_sample \in MinSampleChoices, min_diff_map \in MinDiffChoices,
                  only_active \in BOOLEAN :
                 view' = [tab |-> 2, only_active |-> only_active,
                          filtered |-> RankingRowsOf(agg_call'.out, min_sample,
                                           min_diff_map, only_active,
                                           latest_machine_map)]
            /\ shown' = Append(shown, IF view'.filtered = {}
                                      THEN "tab2_warning_none"
                                      ELSE "tab2_ranking")
    /\ UNCHANGED <<source, coord_source, df, map_coords, latest_machine_map,
                   target_ends, use_zorome, target_df>>

\* Tab 3: the ranking of models.
Tab3 ==
    /\ pc = "tab3"
    /\ \E outcome \in EmptyApplyOutcomes :
       IF MetricsRaises(target_df, <<"kishu">>, outcome)
       THEN /\ pc' = "crashed"
            /\ shown' = Append(shown, "exception")
            /\ UNCHANGED <<agg_call, view>>
       ELSE /\ pc' = "tab4"
            /\ agg_call' = Call(target_df, <<"kishu">>)
            /\ \E min_model \in MinSampleChoices :
                 view' = [tab |-> 3,
                          model_metrics |-> {m \in agg_call'.out :
                                                m.samples >= min_model}]
            /\ shown' = IF view'.model_metrics = {} THEN shown
                        ELSE Append(shown, "tab3_ranking")
    /\ UNCHANGED <<source, coord_source, df, map_coords, latest_machine_map,
                   target_ends, use_zorome, target_df>>

\* The payout percentage of the tab-4 cross tables, in tenths of a percent.
CrossKikaiwari(total_g, total_diff) ==
    IF total_g > 0
    THEN RoundHalfEven((total_g * 3 + total_diff) * 1000, total_g * 3)
    ELSE 0

\* groupby(group_cols).agg(sousamai=sum, total_g=sum) with its kikaiwari.
CrossTable(rows, group_cols) ==
    {LET group == GroupRows(rows, group_cols, key)
         diff  == SumField(group, "sousamai")
         g     == SumField(group, "Gsuu")
     IN  [key |-> key, sousamai |-> diff, total_g |-> g,
          kikaiwari |-> CrossKikaiwari(g, diff)] :
        key \in GroupKeys(rows, group_cols)}

UniqueModels(rows) == {rows[i].kishu : i \in DOMAIN rows}

\* Tab 4: the model x ending-digit and model x repeating-digit tables.
\* sorted() of the model names raises when a NaN stands among strings.
Tab4 ==
    /\ pc = "tab4"
    /\ IF \/ "kishu" \notin df.cols
          \/ (NaN \in UniqueModels(target_df) /\ UniqueModels(target_df) # {NaN})
       THEN /\ pc' = "crashed"
            /\ shown' = Append(shown, "exception")
            /\ UNCHANGED <<agg_call, view>>
       ELSE \E sel_models \in SUBSET (UniqueModels(target_df) \ {NaN}),
               outcome \in EmptyApplyOutcomes :
            LET cross_norm  == CrossTable(target_df, <<"kishu", "dai_matsubi">>)
                filt_norm   == {x \in cross_norm : x.key["kishu"] \in sel_models}
                zorome_only == ZoromeRows(target_df)
                zorome_keys == GroupKeys(zorome_only, <<"kishu", "dai_zorome">>)
                cross_zorome == CrossTable(zorome_only, <<"kishu", "dai_zorome">>)
                filt_zorome == {x \in cross_zorome : x.key["kishu"] \in sel_models}
            IN  IF sel_models = {}
                THEN /\ pc' = "tab5"
                     /\ view' = [tab |-> 4, sel_models |-> {}]
                     /\ UNCHANGED <<agg_call, shown>>
                ELSE IF "Gsuu" \notin df.cols
                THEN /\ pc' = "crashed"
                     /\ shown' = Append(shown, "exception")
                     /\ UNCHANGED <<agg_call, view>>
                ELSE IF zorome_keys = {} /\ outcome = "raise"
                THEN /\ pc' = "crashed"
                     /\ shown' = shown \o <<IF filt_norm # {} THEN "tab4_heatmap_norm"
                                             ELSE "tab4_no_data", "exception">>
                     /\ UNCHANGED <<agg_call, view>>
                ELSE /\ pc' = "tab5"
                     /\ view' = [tab |-> 4, sel_models |-> sel_models,
                                 cross_norm |-> cross_norm, hm_norm |-> filt_norm,
                                 zorome_rows |-> zorome_only,
                                 cross_zorome |-> cross_zorome,
                                 hm_zorome |-> filt_zorome]
                     /\ shown' = shown \o
                                 <<IF filt_norm # {} THEN "tab4_heatmap_norm"
                                   ELSE "tab4_no_data",
                                   IF filt_zorome # {} THEN "tab4_heatmap_zorome"
                                   ELSE "tab4_no_zorome">>
                     /\ UNCHANGED agg_call
    /\ UNCHANGED <<source, coord_source, df, map_coords, latest_machine_map,
                   target_ends, use_zorome, target_df>>

\* VirtualCell with every cabinet laid out in the first row.
VirtualCell_SingleRow(m, metrics, cols_per_row) ==
    LET unique_machines == {x.key["daiban"] : x \in metrics}
        rank == Cardinality({n \in unique_machines : n < m.key["daiban"]})
    IN  [row |-> m, Virtual_Rank |-> rank,
         Map_X |-> rank % cols_per_row,
         Map_Y |-> 0]

\* The position of one aggregate row on the synthetic map: its cabinet's
\* rank among the sorted cabinet numbers, laid out left to right.
VirtualCell(m, metrics, cols_per_row) ==
    LET unique_machines == {x.key["daiban"] : x \in metrics}
        rank == Cardinality({n \in unique_machines : n < m.key["daiban"]})
    IN  [row |-> m, Virtual_Rank |-> rank,
         Map_X |-> rank % cols_per_row,
         Map_Y |-> (rank \div cols_per_row) * (-1)]

\* pd.merge(metrics_df, map_coords, on="daiban", how="inner"): one row per
\* pair of an aggregate row and a coordinate row of the same cabinet.
MergeInner(metrics, coords) ==
    {[row |-> p[1], coord |-> p[2],
      Map_X |-> coords[p[2]].Map_X, Map_Y |-> coords[p[2]].Map_Y] :
        p \in {q \in metrics \X DOMAIN coords :
                  coords[q[2]].daiban = q[1].key["daiban"]}}

\* Tab 5: the floor map, from the coordinate table or, without one, the
\* synthetic map in cabinet order.
Tab5 ==
    /\ pc = "tab5"
    /\ LET intro == IF map_coords.ok THEN <<>>
                    ELSE <<"tab5_warning_no_coords", "tab5_info_setup">>
                       \o (IF "daiban" \in df.cols THEN <<"tab5_virtual_notice">>
                           ELSE <<>>)
       IN  IF "daiban" \notin df.cols
           THEN /\ pc' = "done"
                /\ shown' = shown \o intro
                /\ UNCHANGED <<agg_call, view>>
           ELSE \E outcome \in EmptyApplyOutcomes :
                IF MetricsRaises(target_df, <<"daiban", "kishu">>, outcome)
                THEN /\ pc' = "crashed"
                     /\ shown' = shown \o intro \o <<"exception">>
                     /\ UNCHANGED <<agg_call, view>>
                ELSE
                /\ pc' = "done"
                /\ agg_call' = Call(target_df, <<"daiban", "kishu">>)
                /\ IF map_coords.ok
                   THEN view' = [tab |-> 5, mode |-> "real",
                                 cells |-> MergeInner(agg_call'.out, map_coords.rows)]
                   ELSE \E cols_per_row \in ColsPerRowChoices :
                          view' = [tab |-> 5, mode |-> "virtual",
                                   cols_per_row |-> cols_per_row,
                                   cells |-> {VirtualCell(m, agg_call'.out, cols_per_row) :
                                                m \in agg_call'.out}]
                /\ shown' = shown \o intro \o
                            <<IF ~map_coords.ok THEN "tab5_virtual_map"
                              ELSE IF view'.cells = {} THEN "tab5_error_no_match"
                              ELSE "tab5_real_map">>
    /\ UNCHANGED <<source, coord_source, df, map_coords, latest_machine_map,
                   target_ends, use_zorome, target_df>>

Next ==
    \/ Load
    \/ BuildLatest
    \/ DateInput
    \/ DayFilter
    \/ Tab1Col1
    \/ Tab1Col2
    \/ Tab2
    \/ Tab3
    \/ Tab4
    \/ Tab5

Spec == Init /\ [][Next]_vars

-----------------------------------------------------------------------------
(* Properties *)

\* The whole table load_data returned, before any sidebar filter.
Unfiltered == LoadData(source).rows

RECURSIVE SumSamples(_)
SumSamples(out) ==
    IF out = {} THEN 0
    ELSE LET m == CHOOSE x \in out : TRUE
         IN  m.samples + SumSamples(out \ {m})

\* The aggregate rows of a call that carry the key combination of a record.
RowsFor(call, r) ==
    {m \in call.out : \A c \in Range(call.group_cols) : m.key[c] = r[c]}

\* The input records of a call that carry the key combination of a row.
RecordsOf(call, m) ==
    {i \in DOMAIN call.input :
        \A c \in Range(call.group_cols) : call.input[i][c] = m.key[c]}

\* C1: after every calculate_metrics call, each input record, a record with
\* an empty model name included, has exactly one aggregate row carrying its
\* key combination.
C1_OneRowPerKeyCombination ==
    agg_call.called =>
        \A i \in DOMAIN agg_call.input :
            Cardinality(RowsFor(agg_call, agg_call.input[i])) = 1

\* C2: after every calculate_metrics call, each aggregate row's sample count
\* is the number of input records of its group, its win count the number of
\* those with payout > 0, win count <= sample count, and the sample counts
\* sum to the number of input records.
C2_CountsMatchInput ==
    agg_call.called =>
        /\ \A m \in agg_call.out :
              /\ m.samples = Cardinality(RecordsOf(agg_call, m))
              /\ m.wins = Cardinality({i \in RecordsOf(agg_call, m) :
                                          agg_call.input[i].sousamai > 0})
              /\ m.wins <= m.samples
        /\ SumSamples(agg_call.out) = Len(agg_call.input)

\* w (tenths of a percent) is (g*3 + diff) / (g*3) * 100 rounded to one
\* decimal: no tenth lies nearer to the exact value.
IsRoundedPercentage(w, g, diff) ==
    LET exact == (g * 3 + diff) * 1000
        scaled == w * (g * 3)
    IN  /\ 2 * (scaled - exact) <= g * 3
        /\ 2 * (exact - scaled) <= g * 3

PercentageOk(x) ==
    IF x.total_g > 0 THEN IsRoundedPercentage(x.kikaiwari, x.total_g, x.sousamai)
    ELSE x.total_g = 0 => x.kikaiwari = 0

\* C3: every aggregate row of calculate_metrics and every row of the tab-4
\* cross tables carries (total_spins*3 + total_payout) / (total_spins*3) * 100
\* rounded to one decimal when total spins > 0 and exactly 0 when total spins
\* = 0, and a cross-table row carries the value calculate_metrics gives for
\* the same group.
C3_PayoutPercentage ==
    /\ agg_call.called => \A m \in agg_call.out : PercentageOk(m)
    /\ (view.tab = 4 /\ view.sel_models # {}) =>
          /\ \A x \in view.cross_norm :
                /\ PercentageOk(x)
                /\ \E m \in calculate_metrics(target_df, <<"kishu", "dai_matsubi">>) :
                      m.key = x.key /\ m.kikaiwari = x.kikaiwari
          /\ \A x \in view.cross_zorome :
                /\ PercentageOk(x)
                /\ \E m \in calculate_metrics(view.zorome_rows, <<"kishu", "dai_zorome">>) :
                      m.key = x.key /\ m.kikaiwari = x.kikaiwari

\* C3's case: tab 4 shows a group without spins beside a group with spins
\* whose percentage is not a whole number, after an aggregator call.
C3_Witness ==
    /\ view.tab = 4 /\ view.sel_models # {}
    /\ \E x \in view.cross_norm : x.total_g = 0 /\ x.sousamai # 0
    /\ \E x \in view.cross_zorome : x.total_g > 0 /\ x.kikaiwari % 10 # 0
    /\ agg_call.called
    /\ \E m \in agg_call.out : m.total_g > 0 /\ m.kikaiwari % 10 # 0

\* The rule of the repeating-date flag: the day is 11 or 22, the month equals
\* the day, or the digits of month and day together are one repeated digit.
RepeatingDate(month, day) ==
    \/ day \in {11, 22}
    \/ month = day
    \/ Cardinality(Range(Str(month) \o Str(day))) = 1

\* C4: every loaded record's is_Zorome flag is TRUE exactly when its date
\* satisfies the rule of the repeating-date flag.
C4_RepeatingDateFlag ==
    df.ok => \A i \in DOMAIN df.rows :
                df.rows[i].is_Zorome = RepeatingDate(df.rows[i].Month, df.rows[i].DayNum)

\* C5: the aggregator and the tab-4 cross tables are only handed records
\* with spin count > 0.
C5_ZeroSpinExcluded ==
    /\ agg_call.called => \A i \in DOMAIN agg_call.input : agg_call.input[i].Gsuu > 0
    /\ (view.tab = 4 /\ view.sel_models # {}) =>
          \A i \in DOMAIN target_df : target_df[i].Gsuu > 0

\* C6: when no table can be read, or a required column is missing after the
\* alias resolution, the run ends in the load-failure state with nothing
\* aggregated and no tab rendered.
C6_LoadFailureAborts ==
    (~source.ok \/ ~(CanonHeaders \subseteq ResolveColumns(source.headers))) =>
        (pc # "start" =>
            /\ pc = "stopped"
            /\ shown = <<"error_load">>
            /\ ~agg_call.called
            /\ view = NoView)

\* Record i of the table is a most recent record of its cabinet.
IsMostRecent(rows, i) ==
    \A j \in DOMAIN rows : rows[j].daiban = rows[i].daiban =>
        DateKey(rows[j].hiduke) <= DateKey(rows[i].hiduke)

\* Record i of the table is the first of the most recent records of its
\* cabinet.
IsFirstMostRecent(rows, i) ==
    /\ IsMostRecent(rows, i)
    /\ \A j \in DOMAIN rows :
          (j < i /\ rows[j].daiban = rows[i].daiban) => ~IsMostRecent(rows, j)

\* C7 as stated: a tab-2 row is marked currently installed exactly when its
\* model equals the model of the most recent record of its cabinet in the
\* unfiltered table (of the first of them in table order, should several
\* share the date), and with 'only active' on every row is so marked.
C7_InstalledIffLatestModel ==
    LET all == Unfiltered
    IN  view.tab = 2 =>
            \A x \in view.filtered :
                /\ x.status = Active <=>
                      \E i \in DOMAIN all :
                          /\ all[i].daiban = x.row.key["daiban"]
                          /\ IsFirstMostRecent(all, i)
                          /\ all[i].kishu = x.row.key["kishu"]
                /\ view.only_active => x.status = Active

\* C7 amended: a tab-2 row is marked currently installed exactly when its
\* model name, stripped of surrounding whitespace, equals the stripped model
\* name of the first of the most recent records of its cabinet in the
\* unfiltered table; the latest-model map is that of the unfiltered table
\* whatever the sidebar filters are; with 'only active' on every row of the
\* ranking is marked currently installed.
C7_InstalledIffLatestModelStripped ==
    LET all == Unfiltered
    IN  /\ view.tab = 2 =>
              \A x \in view.filtered :
                  /\ x.status = Active <=>
                        \E i \in DOMAIN all :
                            /\ all[i].daiban = x.row.key["daiban"]
                            /\ IsFirstMostRecent(all, i)
                            /\ StrStrip(all[i].kishu) = StrStrip(x.row.key["kishu"])
                  /\ view.only_active => x.status = Active
        /\ (pc \notin {"start", "latest"} /\ {"daiban", "kishu"} \subseteq df.cols) =>
              latest_machine_map =
                  {<<all[i].daiban, all[i].kishu>> :
                      i \in {j \in DOMAIN all : IsFirstMostRecent(all, j)}}

\* C7's case: the date range has narrowed the table, and the ranking marks
\* a row installed whose model name differs from its cabinet's latest one
\* by whitespace only, beside a row marked removed.
C7_Witness ==
    /\ view.tab = 2
    /\ Len(df.rows) < Len(Unfiltered)
    /\ \E x \in view.filtered :
          /\ x.status = Active
          /\ <<x.row.key["daiban"], x.row.key["kishu"]>> \notin latest_machine_map

\* C8: on the real-coordinate map every cabinet of the coordinate table has
\* a cell at its coordinate, with or without an aggregate row.
C8_UnmatchedCabinetRendered ==
    (view.tab = 5 /\ view.mode = "real") =>
        \A i \in DOMAIN map_coords.rows :
            \E c \in view.cells :
                /\ c.row.key["daiban"] = map_coords.rows[i].daiban
                /\ c.Map_X = map_coords.rows[i].Map_X
                /\ c.Map_Y = map_coords.rows[i].Map_Y

\* C9: on the real-coordinate map no cabinet number has two cells or two
\* coordinates, and every cell's cabinet is one of the coordinate table.
C9_OneCellPerCabinet ==
    (view.tab = 5 /\ view.mode = "real") =>
        /\ \A c1 \in view.cells : \A c2 \in view.cells :
              c1.row.key["daiban"] = c2.row.key["daiban"] => c1 = c2
        /\ \A c \in view.cells :
              \E i \in DOMAIN map_coords.rows :
                  map_coords.rows[i].daiban = c.row.key["daiban"]

\* No coordinate table: the table cannot be read or lacks a cabinet, X or Y
\* column.
NoCoordinateTable ==
    ~coord_source.ok \/ ~({"No", "X", "Y"} \subseteq coord_source.headers)

\* The first place of an element in the rendered sequence, 0 when absent.
Place(e) ==
    IF e \in Range(shown) THEN CHOOSE i \in DOMAIN shown :
                                   shown[i] = e /\ \A j \in 1..(i - 1) : shown[j] # e
    ELSE 0

\* The cabinet's rank among the cabinet numbers of the analysed records
\* that carry a model name, in ascending order.
RankInTarget(no) ==
    Cardinality({target_df[i].daiban :
                    i \in {j \in DOMAIN target_df : /\ target_df[j].daiban < no
                                                     /\ target_df[j].kishu # NaN}})

\* C10: without a coordinate table a finished map tab has shown the
\* 'unavailable' warning and never the real-coordinate map; the synthetic map
\* is drawn only without a coordinate table, after the warning and the
\* virtual-map notice, with the cabinet of rank r at column r mod
\* cols_per_row and row r div cols_per_row, so that distinct cabinets get
\* distinct positions; the two maps are never both rendered.
C10_FallbackMap ==
    /\ (NoCoordinateTable /\ pc = "done") =>
          "tab5_warning_no_coords" \in Range(shown)
    /\ NoCoordinateTable => "tab5_real_map" \notin Range(shown)
    /\ "tab5_virtual_map" \in Range(shown) =>
          /\ NoCoordinateTable
          /\ 0 < Place("tab5_warning_no_coords")
          /\ Place("tab5_warning_no_coords") < Place("tab5_virtual_notice")
          /\ Place("tab5_virtual_notice") < Place("tab5_virtual_map")
    /\ ~("tab5_virtual_map" \in Range(shown) /\ "tab5_real_map" \in Range(shown))
    /\ (view.tab = 5 /\ view.mode = "virtual") =>
          /\ \A c \in view.cells :
                LET r == RankInTarget(c.row.key["daiban"])
                IN  /\ c.Map_X = r % view.cols_per_row
                    /\ 0 - c.Map_Y = r \div view.cols_per_row
          /\ \A c1 \in view.cells : \A c2 \in view.cells :
                c1.row.key["daiban"] # c2.row.key["daiban"] =>
                    <<c1.Map_X, c1.Map_Y>> # <<c2.Map_X, c2.Map_Y>>

\* C10's case: the synthetic map is drawn and fills more than one row.
C10_Witness ==
    /\ NoCoordinateTable
    /\ pc = "done"
    /\ view.tab = 5 /\ view.mode = "virtual"
    /\ \E c \in view.cells : c.Map_Y < 0
    /\ \E c \in view.cells : c.Map_Y = 0 /\ c.Map_X > 0

\* The last two decimal digits of a number, as two characters.
LastTwoDigits(num) == <<Digits[((num \div 10) % 10) + 1], Digits[(num % 10) + 1]>>

\* C11: every record of the loaded table whose cabinet number is not
\* negative carries, as cabinet repeating-digit type, the last two decimal
\* digits of the number when it has at least two digits and the two are
\* equal, and the 'normal' tag otherwise; its cabinet ending digit is the
\* number mod 10; loading a table that has the cabinet column keeps every
\* record and the sidebar filters leave the two columns as loaded.
C11_CabinetRepeatingDigits ==
    (pc # "start" /\ df.ok /\ "daiban" \in df.cols) =>
        LET all == Unfiltered
        IN  /\ Len(all) = Len(source.rows)
            /\ \A i \in DOMAIN all :
                  LET num == all[i].daiban
                  IN  num >= 0 =>
                        /\ all[i].dai_zorome =
                              IF num >= 10 /\ (num \div 10) % 10 = num % 10
                              THEN LastTwoDigits(num) ELSE Normal
                        /\ all[i].dai_matsubi = num % 10
            /\ \A i \in DOMAIN df.rows : \E j \in DOMAIN all : df.rows[i] = all[j]

\* C11's case: the loaded table holds cabinet 100 with type "00", cabinet
\* 122 with type "22" and cabinet 123 with the 'normal' tag.
C11_Witness ==
    /\ pc # "start" /\ df.ok /\ "daiban" \in df.cols
    /\ \E i \in DOMAIN df.rows :
          df.rows[i].daiban = 100 /\ df.rows[i].dai_zorome = <<"0", "0">>
    /\ \E i \in DOMAIN df.rows :
          df.rows[i].daiban = 122 /\ df.rows[i].dai_zorome = <<"2", "2">>
    /\ \E i \in DOMAIN df.rows :
          /\ df.rows[i].daiban = 123
          /\ df.rows[i].dai_zorome = Normal
          /\ df.rows[i].dai_matsubi = 3

\* The records of a table at the places of K, in table order.
Pick(rows, K) ==
    [n \in 1..Cardinality(K) |->
        rows[CHOOSE i \in K : Cardinality({j \in K : j < i}) = n - 1]]

\* The places of the date-ranged table the sidebar selections ask for.
Selected ==
    IF target_ends = {} /\ ~use_zorome THEN DOMAIN df.rows
    ELSE {i \in DOMAIN df.rows : df.rows[i].hiduke.day % 10 \in target_ends}
         \cup (IF use_zorome THEN {i \in DOMAIN df.rows : df.rows[i].is_Zorome}
               ELSE {})

\* C12: once the sidebar is through, target_df is the whole date-ranged
\* table when no ending digit is selected and the repeating-date option is
\* off, and otherwise exactly the records whose day ends in a selected digit
\* together with, if the option is on, the records flagged is_Zorome; when
\* that set is empty the run has stopped having shown only the
\* no-matching-data warning, not the load error, with nothing aggregated and
\* no tab rendered; when it is not, the warning is never shown.
C12_TargetRecordSet ==
    (df.ok /\ pc \notin {"start", "latest", "dates", "filter"}) =>
        /\ target_df = Pick(df.rows, Selected)
        /\ Selected = {} =>
              /\ pc = "stopped"
              /\ shown = <<"warning_no_data">>
              /\ ~agg_call.called
              /\ view = NoView
        /\ Selected # {} =>
              /\ pc # "stopped"
              /\ "warning_no_data" \notin Range(shown)
        /\ "error_load" \notin Range(shown)

\* C12's case: with an ending digit selected and the repeating-date option
\* on, target_df holds a record kept for its ending digit alone and one kept
\* for its flag alone, and leaves out a record of the date-ranged table.
C12_Witness ==
    /\ df.ok /\ pc = "tab1"
    /\ target_ends # {} /\ use_zorome
    /\ \E i \in DOMAIN target_df :
          target_df[i].matsubi \in target_ends /\ ~target_df[i].is_Zorome
    /\ \E i \in DOMAIN target_df :
          target_df[i].matsubi \notin target_ends /\ target_df[i].is_Zorome
    /\ Len(target_df) < Len(df.rows)

====
